---- MODULE Spec2Model ----
(***************************************************************************)
(* Model of the per-cell annotation overlay of src/src/index.ts: the       *)
(* stroke collection kept in cell metadata under META_KEY, the eraser      *)
(* (eraseWithPointer), the pointer handlers, and the metadata accessors.   *)
(*                                                                         *)
(* Numbers.  Normalized coordinates are held as integers on a grid of      *)
(* 1/50 (grid value 50 is the normalized coordinate 1.0, 25 is 0.5).       *)
(* Stroke widths are held in units of 1/2000 (the step of the width        *)
(* slider, line 547), so 0.003 is 6, 0.01 is 20 and BASE_ERASER_RADIUS     *)
(* 0.015 is 30; one grid step is 40 width units.  Squared distances are    *)
(* exact rationals <<numerator, denominator>> in squared grid steps; the   *)
(* rounding of IEEE doubles is not modelled.                               *)
(***************************************************************************)
EXTENDS Integers, Sequences, FiniteSets, TLC

VARIABLES
    store,            \* the value held by the metadata store under META_KEY
    down,             \* line 250
    current,          \* line 251: the in-progress stroke, or NoStroke
    erasingActive,    \* line 252
    erasingPointerId, \* line 253 (0 is null)
    lastErasePoint,   \* line 254 (NoPoint is null)
    tool,             \* line 374
    widthNorm,        \* line 375
    color,            \* line 376
    erasing,          \* line 377
    penSettings,      \* line 372
    highlighterSettings, \* line 373
    overlayOn,        \* canvas.style.pointerEvents = 'auto'
    editor,           \* cell.editor: "none", "silent" (answers nothing) or "lines"
    remote,           \* another actor on the same store: what it has read
    ev                \* the event handled last, and what it did

vars == <<store, down, current, erasingActive, erasingPointerId, lastErasePoint,
          tool, widthNorm, color, erasing, penSettings, highlighterSettings,
          overlayOn, editor, remote, ev>>

uiVars == <<down, current, erasingActive, erasingPointerId, lastErasePoint,
            tool, widthNorm, color, erasing, penSettings, highlighterSettings,
            overlayOn, editor>>

-----------------------------------------------------------------------------
(* Bounds of the model *)

MaxStrokes == 2
MaxPts == 2

(* Program constants *)

META_KEY == "overlay_v1"

BASE_ERASER_RADIUS == 30

-----------------------------------------------------------------------------
(* Values *)

Max(a, b) == IF a >= b THEN a ELSE b
Min(a, b) == IF a <= b THEN a ELSE b

NoPoint == <<>>
NoWidth == 0 - 1
NoAlpha == 0 - 1

NoBasis ==
    [has |-> FALSE, width |-> 0, height |-> 0, minY |-> 0, maxY |-> 0,
     hasAnchor |-> FALSE, anchorLine |-> 0, anchorLineTop |-> <<0, 1>>]

MkBasis(w, h, lo, hi) ==
    [has |-> TRUE, width |-> w, height |-> h, minY |-> lo, maxY |-> hi,
     hasAnchor |-> FALSE, anchorLine |-> 0, anchorLineTop |-> <<0, 1>>]

NoStroke ==
    [tool |-> "none", width |-> NoWidth, color |-> "", alpha |-> NoAlpha,
     points |-> <<>>, basis |-> NoBasis]

MkStroke(t, w, c, a, pts, b) ==
    [tool |-> t, width |-> w, color |-> c, alpha |-> a, points |-> pts, basis |-> b]

-----------------------------------------------------------------------------
(* Exact comparison of non-negative rationals <<n, d>>, d > 0 *)

RECURSIVE RatLeq(_, _)
RatLeq(x, y) ==
    LET q1 == x[1] \div x[2]
        r1 == x[1] % x[2]
        q2 == y[1] \div y[2]
        r2 == y[1] % y[2]
    IN  IF q1 # q2 THEN q1 < q2
        ELSE IF r1 = 0 THEN TRUE
        ELSE IF r2 = 0 THEN FALSE
        ELSE RatLeq(<<y[2], r2>>, <<x[2], r1>>)

RatMin(x, y) == IF RatLeq(x, y) THEN x ELSE y

-----------------------------------------------------------------------------
(* Geometry primitives, lines 640-677 *)

distanceSquared(a, b) ==
    LET dx == a[1] - b[1]
        dy == a[2] - b[2]
    IN  dx * dx + dy * dy

(* t = clamp(c1 / c2) is held as tNum / c2; the squared distance from p to
   a + t v is |w|^2 - 2 t c1 + t^2 c2 = (|w|^2 c2 - 2 tNum c1 + tNum^2) / c2. *)
pointToSegmentDistanceSquared(p, a, b) ==
    IF a[1] = b[1] /\ a[2] = b[2]
    THEN <<distanceSquared(p, a), 1>>
    ELSE LET vx == b[1] - a[1]
             vy == b[2] - a[2]
             wx == p[1] - a[1]
             wy == p[2] - a[2]
             c1 == vx * wx + vy * wy
             c2 == vx * vx + vy * vy
             tNum == Max(0, Min(c2, c1))
         IN  <<(wx * wx + wy * wy) * c2 - 2 * tNum * c1 + tNum * tNum, c2>>

segmentDistanceSquared(a1, a2, b1, b2) ==
    RatMin(RatMin(pointToSegmentDistanceSquared(a1, b1, b2),
                  pointToSegmentDistanceSquared(a2, b1, b2)),
           RatMin(pointToSegmentDistanceSquared(b1, a1, a2),
                  pointToSegmentDistanceSquared(b2, a1, a2)))

-----------------------------------------------------------------------------
(* Metadata accessors, lines 258-298.  The store value is a record: present
   is FALSE when nothing (or no object) is stored under META_KEY; hasStrokes
   is FALSE when the stored object has no array under "strokes"; extra stands
   for every other key of the stored object. *)

EmptyMeta == [present |-> TRUE, hasStrokes |-> TRUE, strokes |-> <<>>, extra |-> 0]

AbsentMeta == [present |-> FALSE, hasStrokes |-> FALSE, strokes |-> <<>>, extra |-> 0]

(* What the stored object holds beside "strokes": nothing, a key with a JSON
   value, a key whose value structuredClone refuses and JSON.stringify
   leaves out (a function), or a key whose value neither can copy (a
   function in a cycle). *)
NoExtra == 0
JsonExtra == 1
FunctionExtra == 2
OpaqueExtra == 3

(* mutant of cloneShares: no copy is ever made *)
cloneSharesAlways(input) == TRUE

(* lines 258-271: whether cloneOverlay(input) gives the input itself back *)
cloneShares(input) == input.extra = OpaqueExtra

(* mutant of cloneOverlay: only the strokes are copied *)
cloneOverlayStrokesOnly(input) == [input EXCEPT !.extra = NoExtra]

(* lines 258-271, by content: structuredClone and the JSON round trip give
   an equal value for JSON-like input, the JSON round trip drops what
   JSON.stringify leaves out, and the last resort is the input itself *)
cloneOverlay(input) ==
    IF input.extra = FunctionExtra THEN [input EXCEPT !.extra = NoExtra] ELSE input

(* mutant of readMeta: the collection as it was read at attach *)
readMetaCached(st) == EmptyMeta

(* mutant of readMeta: an object without an array under "strokes" is
   replaced by the empty collection too *)
readMetaStrict(st) == IF st.present /\ st.hasStrokes THEN cloneOverlay(st) ELSE EmptyMeta

readMeta(st) == IF st.present THEN cloneOverlay(st) ELSE EmptyMeta

(* mutant of writeMeta: the stored strokes that the payload lacks are kept *)
writeMetaMerge(st, value) ==
    LET kept == SelectSeq(st.strokes,
                          LAMBDA t : \A i \in 1..Len(value.strokes) : value.strokes[i] # t)
    IN  [cloneOverlay(value) EXCEPT !.strokes = kept \o value.strokes]

(* the value the store holds after writeMeta(value): the payload, whole *)
writeMeta(st, value) == cloneOverlay(value)

(* Array.isArray(meta.strokes) ? meta.strokes : [] *)
strokesOf(meta) == IF meta.hasStrokes THEN meta.strokes ELSE <<>>

(* mutant of withStrokes: { strokes }, the other keys of meta left out *)
withStrokesOnly(meta, strokes) == [EmptyMeta EXCEPT !.strokes = strokes]

(* { ...meta, strokes } *)
withStrokes(meta, strokes) ==
    [meta EXCEPT !.present = TRUE, !.hasStrokes = TRUE, !.strokes = strokes]

-----------------------------------------------------------------------------
(* eraseWithPointer, lines 679-793 *)

(* mutant of radiusForStroke: the diameter taken for the radius *)
radiusForStrokeDoubled(stroke) ==
    LET width == IF stroke.width = NoWidth THEN 6 ELSE stroke.width
    IN  2 * Max(BASE_ERASER_RADIUS, width * 6)

(* lines 689-692, in width units of 1/2000 *)
radiusForStroke(stroke) ==
    LET width == IF stroke.width = NoWidth THEN 6 ELSE stroke.width
    IN  Max(BASE_ERASER_RADIUS, width * 6)

(* line 702, as a rational in squared grid steps (one grid step is 40 width units) *)
radiusSqOf(stroke) ==
    LET radius == radiusForStroke(stroke)
    IN  <<radius * radius, 1600>>

(* mutant of keepPoint: the swept segment is not tested, only its two ends *)
keepPointEndsOnly(pt, point, previous, radiusSq) ==
    IF RatLeq(<<distanceSquared(pt, point), 1>>, radiusSq) THEN FALSE
    ELSE IF previous # NoPoint /\ RatLeq(<<distanceSquared(pt, previous), 1>>, radiusSq) THEN FALSE
    ELSE TRUE

(* lines 704-717 *)
keepPoint(pt, point, previous, radiusSq) ==
    IF RatLeq(<<distanceSquared(pt, point), 1>>, radiusSq) THEN FALSE
    ELSE IF previous # NoPoint /\ RatLeq(<<distanceSquared(pt, previous), 1>>, radiusSq) THEN FALSE
    ELSE IF previous # NoPoint
            /\ RatLeq(pointToSegmentDistanceSquared(pt, previous, point), radiusSq) THEN FALSE
    ELSE TRUE

(* mutant of flushSegment: a run of a single point is kept too *)
flushSegmentAny(newSegments, currentSegment) ==
    IF Len(currentSegment) > 0 THEN Append(newSegments, currentSegment) ELSE newSegments

(* lines 726-728, 744-746, 755-757: a finished run is kept when it has more than one point *)
flushSegment(newSegments, currentSegment) ==
    IF Len(currentSegment) > 1 THEN Append(newSegments, currentSegment) ELSE newSegments

(* mutant of crosses: no run is broken between two kept points *)
crossesNever(prevPt, pt, point, previous, radiusSq) == FALSE

(* lines 740-742 *)
crosses(prevPt, pt, point, previous, radiusSq) ==
    IF previous # NoPoint
    THEN RatLeq(segmentDistanceSquared(prevPt, pt, previous, point), radiusSq)
    ELSE FALSE

(* mutant of scanPoint: a removed point does not end the current run *)
scanPointNoReset(acc, pt, point, previous, radiusSq) ==
    IF ~keepPoint(pt, point, previous, radiusSq)
    THEN [acc EXCEPT !.strokeModified = TRUE]
    ELSE IF Len(acc.currentSegment) = 0
    THEN [acc EXCEPT !.currentSegment = <<pt>>]
    ELSE IF crosses(acc.currentSegment[Len(acc.currentSegment)], pt, point, previous, radiusSq)
    THEN [newSegments |-> flushSegment(acc.newSegments, acc.currentSegment),
          currentSegment |-> <<pt>>,
          strokeModified |-> TRUE]
    ELSE [acc EXCEPT !.currentSegment = Append(acc.currentSegment, pt)]

(* the body of pts.forEach, lines 723-753, on the loop state
   [newSegments, currentSegment, strokeModified] *)
scanPoint(acc, pt, point, previous, radiusSq) ==
    IF ~keepPoint(pt, point, previous, radiusSq)
    THEN [newSegments |-> flushSegment(acc.newSegments, acc.currentSegment),
          currentSegment |-> <<>>,
          strokeModified |-> TRUE]
    ELSE IF Len(acc.currentSegment) = 0
    THEN [acc EXCEPT !.currentSegment = <<pt>>]
    ELSE IF crosses(acc.currentSegment[Len(acc.currentSegment)], pt, point, previous, radiusSq)
    THEN [newSegments |-> flushSegment(acc.newSegments, acc.currentSegment),
          currentSegment |-> <<pt>>,
          strokeModified |-> TRUE]
    ELSE [acc EXCEPT !.currentSegment = Append(acc.currentSegment, pt)]

RECURSIVE scanPoints(_, _, _, _, _, _)
scanPoints(pts, i, acc, point, previous, radiusSq) ==
    IF i > Len(pts) THEN acc
    ELSE scanPoints(pts, i + 1, scanPoint(acc, pts[i], point, previous, radiusSq),
                    point, previous, radiusSq)

(* lines 719-757: the runs of one stroke and whether the stroke was modified *)
splitStroke(stroke, point, previous) ==
    LET acc == scanPoints(stroke.points, 1,
                          [newSegments |-> <<>>, currentSegment |-> <<>>,
                           strokeModified |-> FALSE],
                          point, previous, radiusSqOf(stroke))
    IN  [newSegments |-> flushSegment(acc.newSegments, acc.currentSegment),
         strokeModified |-> acc.strokeModified]

RECURSIVE SeqMin(_, _)
SeqMin(seg, i) ==
    IF i = Len(seg) THEN seg[i][2] ELSE Min(seg[i][2], SeqMin(seg, i + 1))

RECURSIVE SeqMax(_, _)
SeqMax(seg, i) ==
    IF i = Len(seg) THEN seg[i][2] ELSE Max(seg[i][2], SeqMax(seg, i + 1))

(* mutant of segBasis: the original basis is copied, minY / maxY left as they were *)
segBasisStale(stroke, segment) ==
    IF stroke.basis.has THEN stroke.basis ELSE NoBasis

(* lines 774-780 *)
segBasis(stroke, segment) ==
    IF stroke.basis.has
    THEN [stroke.basis EXCEPT !.minY = SeqMin(segment, 1), !.maxY = SeqMax(segment, 1)]
    ELSE NoBasis

(* lines 781-785 *)
runStroke(stroke, segment) ==
    [stroke EXCEPT !.points = segment, !.basis = segBasis(stroke, segment)]

(* mutant of pushRuns: the runs are put ahead of the strokes already collected *)
RECURSIVE pushRunsFront(_, _, _, _)
pushRunsFront(nextStrokes, stroke, newSegments, k) ==
    IF k > Len(newSegments) THEN nextStrokes
    ELSE IF Len(newSegments[k]) < 2
    THEN pushRunsFront(nextStrokes, stroke, newSegments, k + 1)
    ELSE <<[stroke EXCEPT !.points = newSegments[k],
                          !.basis = IF stroke.basis.has
                                    THEN [stroke.basis EXCEPT !.minY = SeqMin(newSegments[k], 1),
                                                              !.maxY = SeqMax(newSegments[k], 1)]
                                    ELSE NoBasis]>>
         \o pushRunsFront(nextStrokes, stroke, newSegments, k + 1)

(* lines 770-786 *)
RECURSIVE pushRuns(_, _, _, _)
pushRuns(nextStrokes, stroke, newSegments, k) ==
    IF k > Len(newSegments) THEN nextStrokes
    ELSE IF Len(newSegments[k]) < 2
    THEN pushRuns(nextStrokes, stroke, newSegments, k + 1)
    ELSE pushRuns(Append(nextStrokes, runStroke(stroke, newSegments[k])),
                  stroke, newSegments, k + 1)

(* the body of the loop over strokes, lines 694-787, on [nextStrokes, modified] *)
eraseOne(out, stroke, point, previous) ==
    IF Len(stroke.points) = 0
    THEN [out EXCEPT !.nextStrokes = Append(out.nextStrokes, stroke)]
    ELSE LET r == splitStroke(stroke, point, previous)
         IN  IF ~r.strokeModified
             THEN [out EXCEPT !.nextStrokes = Append(out.nextStrokes, stroke)]
             ELSE [nextStrokes |-> pushRuns(out.nextStrokes, stroke, r.newSegments, 1),
                   modified |-> TRUE]

RECURSIVE eraseLoop(_, _, _, _, _)
eraseLoop(strokes, i, out, point, previous) ==
    IF i > Len(strokes) THEN out
    ELSE eraseLoop(strokes, i + 1, eraseOne(out, strokes[i], point, previous),
                   point, previous)

eraseResult(meta, point, previous) ==
    eraseLoop(strokesOf(meta), 1, [nextStrokes |-> <<>>, modified |-> FALSE],
              point, previous)

(* mutant of eraseWrites: the collection is written back after every erase *)
eraseWritesAlways(modified) == TRUE

(* line 789: the collection is written back (and redrawn) only when modified *)
eraseWrites(modified) == modified

(* The event record: the last handler that set out to change the stored
   collection (an erase step, a pointer-up or pointer-cancel, a clear, a write
   by the other actor).  before is the store as the handler read it, stale
   tells whether the store had changed since by the time the handler wrote
   (never, for a handler that reads and writes in one event); wrote / redrew
   tell whether the handler called writeMeta / redraw. *)
Event(kind, point, previous, before, stale, wrote, redrew) ==
    [kind |-> kind, point |-> point, previous |-> previous,
     before |-> before, stale |-> stale, wrote |-> wrote, redrew |-> redrew]

InitEvent(before) == Event("init", NoPoint, NoPoint, before, FALSE, FALSE, FALSE)

(* eraseWithPointer(point, previous) as a step on the store *)
eraseWithPointer(point, previous, kind) ==
    LET meta == readMeta(store)
        res == eraseResult(meta, point, previous)
    IN  /\ store' = IF eraseWrites(res.modified)
                    THEN writeMeta(store, withStrokes(meta, res.nextStrokes))
                    ELSE store
        /\ ev' = Event(kind, point, previous, store, FALSE,
                       eraseWrites(res.modified), eraseWrites(res.modified))

-----------------------------------------------------------------------------
(* The state after attach(cell), lines 250-254 and 372-380 *)

PenDefaults == [color |-> "#ff5722", width |-> 6]
HighlighterDefaults == [color |-> "#ffff00", width |-> 20]

(* the other actor: whether it has read and not yet written, what it read,
   and whether it has written since this overlay's last pointer-down *)
IdleRemote == [pending |-> FALSE, snap |-> EmptyMeta, sinceDown |-> FALSE]

InitUI ==
    /\ down = FALSE
    /\ current = NoStroke
    /\ erasingActive = FALSE
    /\ erasingPointerId = 0
    /\ lastErasePoint = NoPoint
    /\ tool = "pen"
    /\ widthNorm = PenDefaults.width
    /\ color = PenDefaults.color
    /\ erasing = FALSE
    /\ penSettings = PenDefaults
    /\ highlighterSettings = HighlighterDefaults
    /\ remote = IdleRemote

-----------------------------------------------------------------------------
(* The eraser on its own: eraseWithPointer(point, previous) applied, any
   number of times, to collections drawn from a bounded set. *)

AnchoredBasis ==
    [MkBasis(400, 300, 0, 50) EXCEPT !.hasAnchor = TRUE, !.anchorLine = 3,
                                     !.anchorLineTop = <<60, 300>>]

EraseStrokes ==
    { MkStroke("pen", 6, "#ff5722", 10, <<<<0, 0>>, <<0, 25>>, <<0, 50>>>>, MkBasis(400, 300, 0, 50)),
      MkStroke("pen", 6, "#ff5722", 10,
               <<<<0, 0>>, <<0, 10>>, <<0, 25>>, <<0, 40>>, <<0, 50>>>>,
               AnchoredBasis),
      MkStroke("highlighter", 20, "#ffff00", 3,
               <<<<10, 10>>, <<14, 10>>, <<20, 10>>>>, MkBasis(400, 300, 10, 10)),
      MkStroke("pen", 1, "#00ff00", NoAlpha, <<<<0, 20>>, <<50, 20>>>>, NoBasis),
      MkStroke("pen", NoWidth, "#ff5722", NoAlpha, <<<<0, 25>>, <<25, 30>>>>, NoBasis),
      MkStroke("pen", 6, "#ff5722", 10, <<<<25, 10>>>>, MkBasis(400, 300, 10, 10)),
      MkStroke("highlighter", 20, "#ffff00", 3, <<>>, NoBasis) }

(* <<point, previous>>: a contact on a stored point, one at exactly the
   radius of a highlighter point, one in an empty area, sweeps that pass a
   point or cross a segment between their ends, and degenerate sweeps *)
EraseEvents ==
    { <<<<0, 25>>, NoPoint>>,
      <<<<10, 13>>, NoPoint>>,
      <<<<25, 10>>, NoPoint>>,
      <<<<14, 14>>, NoPoint>>,
      <<<<40, 40>>, NoPoint>>,
      <<<<25, 30>>, <<25, 10>>>>,
      <<<<0, 30>>, <<1, 20>>>>,
      <<<<10, 13>>, <<40, 40>>>>,
      <<<<40, 40>>, <<40, 40>>>>,
      <<<<0, 25>>, <<0, 25>>>> }

RECURSIVE SeqsUpTo(_, _)
SeqsUpTo(S, n) ==
    IF n = 0 THEN { <<>> }
    ELSE LET shorter == SeqsUpTo(S, n - 1)
         IN  shorter \cup { Append(q, x) : q \in shorter, x \in S }

InitErase ==
    /\ InitUI
    /\ overlayOn = FALSE
    /\ editor = "none"
    /\ \E strokes \in SeqsUpTo(EraseStrokes, MaxStrokes) :
          store = [EmptyMeta EXCEPT !.strokes = strokes]
    /\ ev = InitEvent(store)

EraseAt(point, previous) ==
    /\ eraseWithPointer(point, previous, "erase")
    /\ UNCHANGED <<uiVars, remote>>

NextErase ==
    \E e \in EraseEvents : EraseAt(e[1], e[2])

SpecErase == InitErase /\ [][NextErase]_vars

-----------------------------------------------------------------------------
(* The overlay of one cell: pointer handlers and palette handlers, each
   running to completion; and, for SpecShared below, another actor on the
   same store. *)

(* where the pointer can be, normalized by toNorm (lines 313-316) *)
PointerPoints == { <<0, 25>>, <<40, 40>> }

(* canvas.clientWidth / canvas.clientHeight *)
canvasSize == [width |-> 400, height |-> 300]

(* mutant of editorAnswer: a line is answered whatever the editor *)
editorAnswerAlways(centerPx) ==
    [has |-> TRUE, line |-> centerPx \div 20, top |-> (centerPx \div 20) * 20]

(* What the editor answers in commitStroke, lines 982-989, for the pixel
   centerPx below the top of the content: the line there and the top of that
   line, for an editor whose lines are 20 pixels high and start at the top of
   the content; nothing when the cell has no editor ("none") or its editor
   answers no position ("silent"). *)
editorAnswer(centerPx) ==
    IF editor = "lines"
    THEN [has |-> TRUE, line |-> centerPx \div 20, top |-> (centerPx \div 20) * 20]
    ELSE [has |-> FALSE, line |-> 0, top |-> 0]

(* what another actor writes: what it read, with one stroke more and a key
   of its own beside "strokes" *)
RemoteStroke ==
    MkStroke("pen", 6, "#0000ff", 10, <<<<0, 25>>, <<10, 25>>>>, NoBasis)

(* mutant of setEraser: switching the eraser on leaves the gesture alone *)
setEraserKeepsGesture(on) ==
    /\ erasingActive' = FALSE
    /\ erasingPointerId' = 0
    /\ lastErasePoint' = NoPoint
    /\ UNCHANGED <<down, current>>
    /\ erasing' = on

(* lines 583-599 *)
setEraser(on) ==
    /\ erasingActive' = FALSE
    /\ erasingPointerId' = 0
    /\ lastErasePoint' = NoPoint
    /\ IF on THEN down' = FALSE /\ current' = NoStroke
             ELSE UNCHANGED <<down, current>>
    /\ erasing' = on

(* lines 564-581 *)
setTool(next) ==
    /\ erasing' = FALSE
    /\ tool' = next
    /\ color' = IF next = "pen" THEN penSettings.color ELSE highlighterSettings.color
    /\ widthNorm' = IF next = "pen" THEN penSettings.width ELSE highlighterSettings.width

(* mutant of ToolClick: the button calls setTool alone *)
ToolClickSetToolOnly(next) ==
    /\ setTool(next)
    /\ UNCHANGED <<down, current, erasingActive, erasingPointerId, lastErasePoint>>
    /\ UNCHANGED <<store, penSettings, highlighterSettings, overlayOn, editor, remote, ev>>

(* lines 510-513 and 517-520: the Pen and Highlighter buttons *)
ToolClick(next) ==
    /\ setEraser(FALSE)
    /\ setTool(next)
    /\ UNCHANGED <<store, penSettings, highlighterSettings, overlayOn, editor, remote, ev>>

(* line 524: the Eraser button *)
EraserClick ==
    /\ setEraser(~erasing)
    /\ UNCHANGED <<store, tool, widthNorm, color, penSettings, highlighterSettings,
                   overlayOn, editor, remote, ev>>

(* mutant of clearStrokes: the oldest stroke is left *)
clearStrokesLeavesFirst ==
    /\ setEraser(FALSE)
    /\ store' = writeMeta(store,
                          withStrokes(readMeta(store),
                                      IF strokesOf(readMeta(store)) = <<>>
                                      THEN <<>>
                                      ELSE <<strokesOf(readMeta(store))[1]>>))
    /\ ev' = Event("clear", NoPoint, NoPoint, store, FALSE, TRUE, TRUE)
    /\ UNCHANGED <<tool, widthNorm, color, penSettings, highlighterSettings,
                   overlayOn, editor, remote>>

(* lines 623-629, behind the Clear button *)
clearStrokes ==
    /\ setEraser(FALSE)
    /\ store' = writeMeta(store, withStrokes(readMeta(store), <<>>))
    /\ ev' = Event("clear", NoPoint, NoPoint, store, FALSE, TRUE, TRUE)
    /\ UNCHANGED <<tool, widthNorm, color, penSettings, highlighterSettings,
                   overlayOn, editor, remote>>

(* lines 795-809 *)
toggleOverlay ==
    /\ overlayOn' = ~overlayOn
    /\ UNCHANGED <<store, down, current, erasingActive, erasingPointerId, lastErasePoint,
                   tool, widthNorm, color, erasing, penSettings, highlighterSettings,
                   editor, remote, ev>>

(* lines 923-935 *)
newStroke(firstPoint) ==
    MkStroke(tool, widthNorm, color, IF tool = "highlighter" THEN 3 ELSE 10,
             <<firstPoint>>,
             MkBasis(canvasSize.width, canvasSize.height, firstPoint[2], firstPoint[2]))

(* lines 902-942; a stroke is begun while the collection is below its
   bound *)
PointerDown(p, id) ==
    /\ overlayOn
    /\ IF erasing
       THEN /\ erasingActive' = TRUE
            /\ erasingPointerId' = id
            /\ eraseWithPointer(p, lastErasePoint, "erase")
            /\ lastErasePoint' = p
            /\ UNCHANGED <<down, current>>
       ELSE /\ Len(strokesOf(readMeta(store))) < MaxStrokes
            /\ erasingActive' = FALSE
            /\ erasingPointerId' = 0
            /\ lastErasePoint' = NoPoint
            /\ down' = TRUE
            /\ current' = newStroke(p)
            /\ UNCHANGED <<store, ev>>
    /\ remote' = [remote EXCEPT !.sinceDown = FALSE]
    /\ UNCHANGED <<tool, widthNorm, color, erasing, penSettings, highlighterSettings,
                   overlayOn, editor>>

(* mutant of extendStroke: the point goes in front *)
extendStrokeFront(stroke, point) ==
    [stroke EXCEPT !.points = <<point>> \o stroke.points]

(* lines 955-962 *)
extendStroke(stroke, point) ==
    [stroke EXCEPT !.points = Append(stroke.points, point),
                   !.basis = IF stroke.basis.has
                             THEN [stroke.basis EXCEPT
                                      !.minY = Min(stroke.basis.minY, point[2]),
                                      !.maxY = Max(stroke.basis.maxY, point[2])]
                             ELSE stroke.basis]

(* lines 943-965 *)
PointerMove(p) ==
    /\ IF erasingActive
       THEN /\ eraseWithPointer(p, lastErasePoint, "erase")
            /\ lastErasePoint' = p
            /\ UNCHANGED current
       ELSE /\ down /\ current # NoStroke
            /\ Len(current.points) < MaxPts
            /\ current' = extendStroke(current, p)
            /\ UNCHANGED <<store, lastErasePoint, ev>>
    /\ UNCHANGED <<down, erasingActive, erasingPointerId, tool, widthNorm, color,
                   erasing, penSettings, highlighterSettings, overlayOn, editor, remote>>

(* lines 970-995: the stroke with the anchor the editor answers; minY and
   maxY are grid values, 50 to the unit *)
anchored(stroke) ==
    IF stroke.basis.has
    THEN LET basisHeight == IF stroke.basis.height # 0 THEN stroke.basis.height
                            ELSE canvasSize.height
             centerPx == ((stroke.basis.minY + stroke.basis.maxY) * basisHeight) \div 100
             answer == editorAnswer(centerPx)
         IN  IF answer.has
             THEN [stroke EXCEPT !.basis.hasAnchor = TRUE,
                                 !.basis.anchorLine = answer.line,
                                 !.basis.anchorLineTop = <<answer.top, basisHeight>>]
             ELSE stroke
    ELSE stroke

(* lines 996-999: the value commitStroke writes *)
commitValue(meta, stroke) == withStrokes(meta, Append(strokesOf(meta), stroke))

(* What a handler that ends a gesture leaves: the store, the variables it
   may assign, and whether it called writeMeta (and redraw). *)
Outcome(st, dn, cur, active, id, last, wrote) ==
    [store |-> st, down |-> dn, current |-> cur, erasingActive |-> active,
     erasingPointerId |-> id, lastErasePoint |-> last, wrote |-> wrote]

(* mutant of commitStroke: current is not reset after the write *)
commitStrokeKeepsCurrent ==
    IF ~down \/ current = NoStroke
    THEN Outcome(store, down, current, erasingActive, erasingPointerId, lastErasePoint,
                 FALSE)
    ELSE Outcome(writeMeta(store, commitValue(readMeta(store), anchored(current))),
                 FALSE, current, erasingActive, erasingPointerId, lastErasePoint, TRUE)

(* lines 966-1005 *)
commitStroke ==
    IF ~down \/ current = NoStroke
    THEN Outcome(store, down, current, erasingActive, erasingPointerId, lastErasePoint,
                 FALSE)
    ELSE Outcome(writeMeta(store, commitValue(readMeta(store), anchored(current))),
                 FALSE, NoStroke, erasingActive, erasingPointerId, lastErasePoint, TRUE)

(* mutant of finishErasing: the last contact point is kept *)
finishErasingKeepsPoint ==
    IF ~erasingActive
    THEN Outcome(store, down, current, erasingActive, erasingPointerId, lastErasePoint,
                 FALSE)
    ELSE Outcome(store, down, current, FALSE, 0, lastErasePoint, FALSE)

(* lines 1006-1017 *)
finishErasing ==
    IF ~erasingActive
    THEN Outcome(store, down, current, erasingActive, erasingPointerId, lastErasePoint,
                 FALSE)
    ELSE Outcome(store, down, current, FALSE, 0, NoPoint, FALSE)

(* mutant of pointercancel: the in-progress stroke is dropped, not committed *)
pointercancelDiscards ==
    IF erasingActive
    THEN finishErasing
    ELSE Outcome(store, FALSE, NoStroke, erasingActive, erasingPointerId, lastErasePoint,
                 FALSE)

(* lines 1018-1027 *)
pointerup == IF erasingActive THEN finishErasing ELSE commitStroke

(* lines 1028-1037 *)
pointercancel == IF erasingActive THEN finishErasing ELSE commitStroke

(* a handler that ends a gesture, as a step; a stroke is committed while the
   collection is below its bound *)
endGesture(kind, outcome) ==
    /\ outcome.wrote => Len(strokesOf(readMeta(store))) < MaxStrokes
    /\ store' = outcome.store
    /\ down' = outcome.down
    /\ current' = outcome.current
    /\ erasingActive' = outcome.erasingActive
    /\ erasingPointerId' = outcome.erasingPointerId
    /\ lastErasePoint' = outcome.lastErasePoint
    /\ ev' = Event(kind, NoPoint, NoPoint, store, FALSE, outcome.wrote, outcome.wrote)
    /\ UNCHANGED <<tool, widthNorm, color, erasing, penSettings, highlighterSettings,
                   overlayOn, editor, remote>>

PointerUp == endGesture("up", pointerup)

PointerCancel == endGesture("cancel", pointercancel)

(* Another actor on the same store (another session on the shared model):
   it runs lines 996-999 too, but its write reaches the store some events
   after its read. *)
RemoteValue(snap) == [commitValue(snap, RemoteStroke) EXCEPT !.extra = 1]

RemoteRead ==
    /\ ~remote.pending
    /\ remote' = [remote EXCEPT !.pending = TRUE, !.snap = readMeta(store)]
    /\ UNCHANGED <<store, uiVars, ev>>

RemoteWrite ==
    /\ remote.pending
    /\ Len(strokesOf(remote.snap)) < MaxStrokes
    /\ store' = writeMeta(store, RemoteValue(remote.snap))
    /\ remote' = [IdleRemote EXCEPT !.sinceDown = TRUE]
    /\ ev' = Event("remoteWrite", NoPoint, NoPoint, remote.snap,
                   readMeta(store) # remote.snap, TRUE, FALSE)
    /\ UNCHANGED uiVars

Init ==
    /\ InitUI
    /\ overlayOn = FALSE
    /\ editor \in {"none", "lines"}
    /\ store = AbsentMeta
    /\ ev = InitEvent(store)

Next ==
    \/ \E p \in PointerPoints : PointerDown(p, 1)
    \/ \E p \in PointerPoints : PointerMove(p)
    \/ PointerUp
    \/ PointerCancel
    \/ \E next \in {"pen", "highlighter"} : ToolClick(next)
    \/ EraserClick
    \/ clearStrokes
    \/ toggleOverlay

Spec == Init /\ [][Next]_vars

(* The store shared with another actor: this overlay, switched on and with
   the pen, draws, erases and clears while the other actor reads and
   writes.  The pointer stays where the other actor's stroke begins, so an
   erase step that sees that stroke removes it. *)
SharedPoints == { RemoteStroke.points[1] }

InitShared ==
    /\ InitUI
    /\ overlayOn = TRUE
    /\ editor = "lines"
    /\ store = AbsentMeta
    /\ ev = InitEvent(store)

NextShared ==
    \/ \E p \in SharedPoints : PointerDown(p, 1)
    \/ \E p \in SharedPoints : PointerMove(p)
    \/ PointerUp
    \/ PointerCancel
    \/ EraserClick
    \/ clearStrokes
    \/ RemoteRead
    \/ RemoteWrite

SpecShared == InitShared /\ [][NextShared]_vars

-----------------------------------------------------------------------------
(* Drawing on its own: the overlay, switched on, takes draw gestures with
   either tool. *)

InitDraw ==
    /\ InitUI
    /\ overlayOn = TRUE
    /\ editor = "lines"
    /\ store = AbsentMeta
    /\ ev = InitEvent(store)

NextDraw ==
    \/ \E p \in PointerPoints : PointerDown(p, 1)
    \/ \E p \in PointerPoints : PointerMove(p)
    \/ PointerUp
    \/ \E next \in {"pen", "highlighter"} : ToolClick(next)

SpecDraw == InitDraw /\ [][NextDraw]_vars

-----------------------------------------------------------------------------
(* Pointers on the overlay: with the pen or the eraser, one pointer or two
   go down, move, go up or are cancelled, and the collection is cleared. *)

PointerIds == { 1, 2 }

InitPointer ==
    /\ InitUI
    /\ overlayOn = TRUE
    /\ editor = "none"
    /\ store = AbsentMeta
    /\ ev = InitEvent(store)

NextPointer ==
    \/ \E p \in PointerPoints, id \in PointerIds : PointerDown(p, id)
    \/ \E p \in PointerPoints : PointerMove(p)
    \/ PointerUp
    \/ PointerCancel
    \/ EraserClick
    \/ clearStrokes

SpecPointer == InitPointer /\ [][NextPointer]_vars

-----------------------------------------------------------------------------
(* The metadata accessors on their own: a caller reads, writes, and mutates
   in place the objects it holds, over a store that may hold anything. *)

StoreStrokeSeqs == { <<>>, <<RemoteStroke>> }

StoreExtras == { NoExtra, JsonExtra, FunctionExtra, OpaqueExtra }

(* what the store may hold under META_KEY: nothing (or no object), an object
   without an array under "strokes", a collection *)
StoreValues ==
    { AbsentMeta }
    \cup { [present |-> TRUE, hasStrokes |-> FALSE, strokes |-> <<>>, extra |-> x] :
             x \in StoreExtras }
    \cup { [present |-> TRUE, hasStrokes |-> TRUE, strokes |-> q, extra |-> x] :
             q \in StoreStrokeSeqs, x \in StoreExtras }

(* what a caller may pass to writeMeta *)
WriteValues == { v \in StoreValues : v.present }

(* The accessor called last: value is the object the caller holds (what
   readMeta returned, or what it passed to writeMeta), shared tells whether
   that object is the very object the store holds, before is the store as
   it was when the call began. *)
StoreEvent(kind, value, shared, before) ==
    [kind |-> kind, value |-> value, shared |-> shared, before |-> before]

(* lines 272-287: the object readMeta returns is the stored object itself
   when cloneOverlay gives its input back *)
readShares(st) == st.present /\ cloneShares(st)

Read ==
    /\ ev' = StoreEvent("read", readMeta(store), readShares(store), store)
    /\ UNCHANGED <<store, uiVars, remote>>

(* lines 288-298 *)
Write(value) ==
    /\ store' = writeMeta(store, value)
    /\ ev' = StoreEvent("write", value, cloneShares(value), store)
    /\ UNCHANGED <<uiVars, remote>>

(* the caller assigns to the strokes of the object it holds, as line 626
   does; the store changes with it when the object is the store's own *)
Mutate(strokes) ==
    /\ ev.kind \in {"read", "write"}
    /\ ev' = StoreEvent(IF ev.kind = "read" THEN "mutateRead" ELSE "mutateWritten",
                        withStrokes(ev.value, strokes), ev.shared, store)
    /\ store' = IF ev.shared THEN withStrokes(ev.value, strokes) ELSE store
    /\ UNCHANGED <<uiVars, remote>>

(* writeMeta(readMeta()) *)
RoundTrip ==
    /\ store' = writeMeta(store, readMeta(store))
    /\ ev' = StoreEvent("roundTrip", readMeta(store), readShares(store), store)
    /\ UNCHANGED <<uiVars, remote>>

(* What a change notification may carry: something that is no object, or
   an object with a key, with a name, or with neither. *)
Change(isObject, hasKey, key, hasName, name) ==
    [isObject |-> isObject, hasKey |-> hasKey, key |-> key,
     hasName |-> hasName, name |-> name]

Changes ==
    { Change(FALSE, FALSE, "", FALSE, ""),
      Change(TRUE, TRUE, META_KEY, FALSE, ""),
      Change(TRUE, TRUE, "tags", FALSE, ""),
      Change(TRUE, FALSE, "", TRUE, META_KEY),
      Change(TRUE, FALSE, "", TRUE, "tags"),
      Change(TRUE, FALSE, "", FALSE, "") }

(* lines 1039-1053: whether onMetadataChanged(_, change) calls redraw *)
onMetadataChanged(change) ==
    IF ~change.isObject THEN TRUE
    ELSE IF change.hasKey THEN change.key = META_KEY
    ELSE change.hasName /\ change.name = META_KEY

(* the notification handled last: redraw (lines 363-369) reads the store and
   paints; nothing is written *)
NotifyEvent(change, redrew, before) ==
    [kind |-> "notify", change |-> change, redrew |-> redrew, before |-> before]

Notify(change) ==
    /\ ev' = NotifyEvent(change, onMetadataChanged(change), store)
    /\ UNCHANGED <<store, uiVars, remote>>

InitStore ==
    /\ InitUI
    /\ overlayOn = FALSE
    /\ editor = "none"
    /\ store \in StoreValues
    /\ ev = StoreEvent("init", store, FALSE, store)

NextStore ==
    \/ Read
    \/ \E value \in WriteValues : Write(value)
    \/ \E strokes \in StoreStrokeSeqs : Mutate(strokes)
    \/ RoundTrip
    \/ \E change \in Changes : Notify(change)

SpecStore == InitStore /\ [][NextStore]_vars

-----------------------------------------------------------------------------
(* Rendering, lines 318-369.  Pixels are exact rationals <<n, d>>, d > 0,
   in lowest terms; a stored coordinate c is c/50, a stored width w is
   w/2000, an alpha a is a/10. *)

Abs(x) == IF x < 0 THEN 0 - x ELSE x

RECURSIVE GCD(_, _)
GCD(a, b) == IF b = 0 THEN a ELSE GCD(b, a % b)

QReduce(x) ==
    LET g == GCD(Abs(x[1]), x[2])
    IN  <<x[1] \div g, x[2] \div g>>

QInt(n) == <<n, 1>>
QAdd(x, y) == QReduce(<<x[1] * y[2] + y[1] * x[2], x[2] * y[2]>>)
QSub(x, y) == QReduce(<<x[1] * y[2] - y[1] * x[2], x[2] * y[2]>>)
QMul(x, y) == QReduce(<<x[1] * y[1], x[2] * y[2]>>)

QCoord(c) == QReduce(<<c, 50>>)
QWidth(w) == QReduce(<<w, 2000>>)

(* canvas.clientWidth and canvas.clientHeight at a redraw; both are 0 while
   the content of the cell has no box *)
LiveSizes ==
    { [width |-> 0, height |-> 0],
      [width |-> 200, height |-> 90],
      [width |-> 400, height |-> 120] }

(* What getCoordinateForPosition and the content rectangle give at a redraw:
   nothing, or lines of lineHeight pixels below pad pixels of padding. *)
NoLayout == [has |-> FALSE, pad |-> 0, lineHeight |-> 0]

Layouts ==
    { NoLayout,
      [has |-> TRUE, pad |-> 10, lineHeight |-> 10],
      [has |-> TRUE, pad |-> 0, lineHeight |-> 20] }

(* lines 335-341: lineCoord, and lineCoord.top - contentRect.top *)
lineCoordinate(layout, line) ==
    IF layout.has
    THEN [has |-> TRUE, top |-> layout.pad + line * layout.lineHeight]
    ELSE [has |-> FALSE, top |-> 0]

(* lines 319-320: W and H *)
liveWidth(size) == IF size.width # 0 THEN size.width ELSE 1
liveHeight(size) == IF size.height # 0 THEN size.height ELSE 1

(* mutant of basisWidth: the live width whatever the basis *)
basisWidthLive(s, size) == liveWidth(size)

(* line 321 *)
basisWidth(s, size) ==
    IF s.basis.has /\ s.basis.width # 0 /\ s.basis.width > 0
    THEN s.basis.width
    ELSE liveWidth(size)

(* line 322 *)
basisHeight(s, size) ==
    IF s.basis.has /\ s.basis.height # 0 /\ s.basis.height > 0
    THEN s.basis.height
    ELSE liveHeight(size)

(* mutant of deltaY: the anchor correction whatever the live height *)
deltaYAnyHeight(s, size, layout) ==
    IF s.basis.has /\ s.basis.hasAnchor /\ editor # "none"
    THEN LET lineCoord == lineCoordinate(layout, s.basis.anchorLine)
         IN  IF lineCoord.has
             THEN QSub(QInt(lineCoord.top),
                       QMul(QReduce(s.basis.anchorLineTop), QInt(basisHeight(s, size))))
             ELSE QInt(0)
    ELSE QInt(0)

(* lines 326-345 *)
deltaY(s, size, layout) ==
    IF /\ liveHeight(size) >= basisHeight(s, size)
       /\ s.basis.has
       /\ s.basis.hasAnchor
       /\ editor # "none"
    THEN LET lineCoord == lineCoordinate(layout, s.basis.anchorLine)
         IN  IF lineCoord.has
             THEN LET newTop == QInt(lineCoord.top)
                      originalTop == QMul(QReduce(s.basis.anchorLineTop),
                                          QInt(basisHeight(s, size)))
                  IN  QSub(newTop, originalTop)
             ELSE QInt(0)
    ELSE QInt(0)

(* lines 318-361: what one stroke puts on the canvas *)
drawStroke(s, size, layout) ==
    [globalAlpha |-> IF s.tool = "highlighter"
                     THEN (IF s.alpha = NoAlpha THEN 3 ELSE s.alpha)
                     ELSE 10,
     lineWidth |-> QMul(QWidth(s.width), QInt(basisWidth(s, size))),
     strokeStyle |-> s.color,
     deltaY |-> deltaY(s, size, layout),
     path |-> [i \in 1..Len(s.points) |->
                  <<QMul(QCoord(s.points[i][1]), QInt(basisWidth(s, size))),
                    QAdd(QMul(QCoord(s.points[i][2]), QInt(basisHeight(s, size))),
                         deltaY(s, size, layout))>>]]

(* lines 363-369: the stored strokes in order, then the stroke in progress *)
redraw(size, layout) ==
    LET strokes == strokesOf(readMeta(store))
        all == IF current # NoStroke THEN Append(strokes, current) ELSE strokes
    IN  [i \in 1..Len(all) |-> drawStroke(all[i], size, layout)]

(* the strokes a rendered store holds: no basis, or a basis whose width and
   height are recorded or 0, with or without the anchor of line 3 at 0.2 *)
RenderBases ==
    { NoBasis } \cup
    { [has |-> TRUE, width |-> w, height |-> h, minY |-> 25, maxY |-> 40,
       hasAnchor |-> a, anchorLine |-> IF a THEN 3 ELSE 0,
       anchorLineTop |-> IF a THEN <<1, 5>> ELSE <<0, 1>>] :
         w \in {0, 400}, h \in {0, 100}, a \in BOOLEAN }

RenderStrokes ==
    { MkStroke("pen", 6, "#ff5722", 10, <<<<0, 25>>, <<40, 40>>>>, b) : b \in RenderBases }
    \cup { MkStroke("highlighter", 20, "#ffff00", 3, <<<<10, 10>>, <<10, 30>>>>, NoBasis) }

RenderEvent(size, layout, drawn, before) ==
    [kind |-> "render", size |-> size, layout |-> layout, drawn |-> drawn,
     before |-> before]

Redraw(size, layout) ==
    /\ ev' = RenderEvent(size, layout, redraw(size, layout), store)
    /\ UNCHANGED <<store, remote>>
    /\ UNCHANGED uiVars

(* the notebook metadata is replaced from outside the overlay *)
Replace(strokes) ==
    /\ store' = [present |-> TRUE, hasStrokes |-> TRUE, strokes |-> strokes,
                 extra |-> NoExtra]
    /\ ev' = [kind |-> "replace", size |-> [width |-> 0, height |-> 0],
              layout |-> NoLayout, drawn |-> <<>>, before |-> store]
    /\ UNCHANGED remote
    /\ UNCHANGED uiVars

RenderStores ==
    { <<s>> : s \in RenderStrokes } \cup
    { <<s, t>> : s \in { x \in RenderStrokes : x.basis.hasAnchor },
                 t \in { x \in RenderStrokes : ~x.basis.has } }

InitRender ==
    /\ InitUI
    /\ overlayOn = TRUE
    /\ editor \in {"none", "lines"}
    /\ store = EmptyMeta
    /\ ev = [kind |-> "init", size |-> [width |-> 0, height |-> 0],
             layout |-> NoLayout, drawn |-> <<>>, before |-> store]

NextRender ==
    \/ \E size \in LiveSizes, layout \in Layouts : Redraw(size, layout)
    \/ \E strokes \in RenderStores : Replace(strokes)

SpecRender == InitRender /\ [][NextRender]_vars

-----------------------------------------------------------------------------
(* Drawing and resizing: strokes from (0, 0.5) towards (0.8, 0.8) are drawn
   and committed on the canvas of canvasSize, and the canvas is redrawn at
   any live size.  The cell has no editor, an editor that answers nothing,
   or an editor of lines. *)

ResizeLayouts == IF editor = "lines" THEN Layouts ELSE { NoLayout }

InitResize ==
    /\ InitUI
    /\ overlayOn = TRUE
    /\ editor \in {"none", "silent", "lines"}
    /\ store = AbsentMeta
    /\ ev = InitEvent(store)

NextResize ==
    \/ PointerDown(<<0, 25>>, 1)
    \/ PointerMove(<<40, 40>>)
    \/ PointerUp
    \/ PointerCancel
    \/ \E size \in LiveSizes, layout \in ResizeLayouts : Redraw(size, layout)

SpecResize == InitResize /\ [][NextResize]_vars

-----------------------------------------------------------------------------
(* The modes of the overlay: every handler of the overlay of one cell, from
   the state after construction, with the pointer on one spot: two pointers,
   both tools, the eraser, clear, the overlay toggle and change
   notifications. *)

ModePoints == { <<0, 25>> }

ModeChanges == { c \in Changes : c.isObject /\ c.hasKey }

InitMode ==
    /\ InitUI
    /\ overlayOn = FALSE
    /\ editor = "none"
    /\ store = AbsentMeta
    /\ ev = InitEvent(store)

NextMode ==
    \/ \E p \in ModePoints, id \in PointerIds : PointerDown(p, id)
    \/ \E p \in ModePoints : PointerMove(p)
    \/ PointerUp
    \/ PointerCancel
    \/ \E next \in {"pen", "highlighter"} : ToolClick(next)
    \/ EraserClick
    \/ clearStrokes
    \/ toggleOverlay
    \/ \E change \in ModeChanges : Notify(change)

SpecMode == InitMode /\ [][NextMode]_vars

-----------------------------------------------------------------------------
(* Drawing and erasing on a collection that holds a stroke already: one
   this engine committed earlier, or one written by another tool with a
   basis that records no width and no height. *)

InkPoints == <<<<40, 40>>, <<30, 45>>, <<20, 50>>>>

InkStrokes ==
    { MkStroke("pen", 6, "#ff5722", 10, InkPoints, MkBasis(400, 300, 40, 50)),
      MkStroke("pen", 6, "#0000ff", 10, InkPoints, MkBasis(0, 0, 40, 50)) }

InitInk ==
    /\ InitUI
    /\ overlayOn = TRUE
    /\ editor = "none"
    /\ \E strokes \in SeqsUpTo(InkStrokes, 1) :
          store = [EmptyMeta EXCEPT !.strokes = strokes]
    /\ ev = InitEvent(store)

NextInk ==
    \/ \E p \in PointerPoints : PointerDown(p, 1)
    \/ \E p \in PointerPoints : PointerMove(p)
    \/ PointerUp
    \/ EraserClick

SpecInk == InitInk /\ [][NextInk]_vars

-----------------------------------------------------------------------------
(* Writing beside other keys: the value under META_KEY holds, beside a
   collection of one stroke or none, any of the other keys of StoreExtras,
   and the overlay draws, erases and clears on the spot where the stored
   stroke begins. *)

FrameValues == { v \in StoreValues : v.present /\ v.hasStrokes }

InitFrame ==
    /\ InitUI
    /\ overlayOn = TRUE
    /\ editor = "none"
    /\ store \in FrameValues
    /\ ev = InitEvent(store)

NextFrame ==
    \/ \E p \in SharedPoints : PointerDown(p, 1)
    \/ \E p \in SharedPoints : PointerMove(p)
    \/ PointerUp
    \/ PointerCancel
    \/ EraserClick
    \/ clearStrokes

SpecFrame == InitFrame /\ [][NextFrame]_vars

-----------------------------------------------------------------------------
(* Drawing with the pointer captured: pointerdown captures the pointer
   (line 920), so the moves of the gesture reach the canvas wherever the
   pointer is, inside its rectangle or beyond its edges. *)

(* canvas.getBoundingClientRect(), in client pixels *)
canvasRect == [left |-> 100, top |-> 50, width |-> canvasSize.width,
               height |-> canvasSize.height]

(* lines 313-316, on the grid of 1/50 *)
toNorm(e, r) ==
    <<((e.clientX - r.left) * 50) \div r.width, ((e.clientY - r.top) * 50) \div r.height>>

(* pointer positions over the canvas *)
InsideEvents ==
    { [clientX |-> 100, clientY |-> 200], [clientX |-> 420, clientY |-> 290] }

(* pointer positions beyond the right, the left and the bottom edge *)
OutsideEvents ==
    { [clientX |-> 580, clientY |-> 200], [clientX |-> 60, clientY |-> 200],
      [clientX |-> 420, clientY |-> 410] }

InitCapture ==
    /\ InitUI
    /\ overlayOn = TRUE
    /\ editor = "none"
    /\ store = AbsentMeta
    /\ ev = InitEvent(store)

NextCapture ==
    \/ \E e \in InsideEvents : PointerDown(toNorm(e, canvasRect), 1)
    \/ \E e \in InsideEvents \cup OutsideEvents : PointerMove(toNorm(e, canvasRect))
    \/ PointerUp
    \/ PointerCancel

SpecCapture == InitCapture /\ [][NextCapture]_vars

-----------------------------------------------------------------------------
(* The geometry of the eraser contract, stated without the code's
   projection: the distance from p to a segment is the distance to the
   nearer end when p projects outside the segment, and the perpendicular
   distance (cross product over length) when it projects inside. *)

Range(q) == { q[i] : i \in 1..Len(q) }

Dist2(p, q) == (p[1] - q[1]) ^ 2 + (p[2] - q[2]) ^ 2

(* max(0.015, width * 6) in width units; a stroke without a width is erased
   as if its width were 0.003 *)
ContractRadius(s) ==
    IF s.width = NoWidth THEN 36
    ELSE IF s.width * 6 > 30 THEN s.width * 6 ELSE 30

WithinOfPoint(p, q, s) == Dist2(p, q) * 1600 <= ContractRadius(s) ^ 2

WithinOfSegment(p, a, b, s) ==
    IF a = b THEN WithinOfPoint(p, a, s)
    ELSE LET dot == (p[1] - a[1]) * (b[1] - a[1]) + (p[2] - a[2]) * (b[2] - a[2])
             len2 == Dist2(a, b)
             cross == (b[1] - a[1]) * (p[2] - a[2]) - (b[2] - a[2]) * (p[1] - a[1])
         IN  IF dot <= 0 THEN WithinOfPoint(p, a, s)
             ELSE IF dot >= len2 THEN WithinOfPoint(p, b, s)
             ELSE RatLeq(<<cross * cross, len2>>, <<ContractRadius(s) ^ 2, 1600>>)

Removed(p, point, previous, s) ==
    \/ WithinOfPoint(p, point, s)
    \/ previous # NoPoint /\ WithinOfPoint(p, previous, s)
    \/ previous # NoPoint /\ WithinOfSegment(p, previous, point, s)

(* the run is broken between consecutive kept points a, b: one of the four
   ends of the two segments is within the radius of the other segment *)
Broken(a, b, point, previous, s) ==
    /\ previous # NoPoint
    /\ \/ WithinOfSegment(a, previous, point, s)
       \/ WithinOfSegment(b, previous, point, s)
       \/ WithinOfSegment(previous, a, b, s)
       \/ WithinOfSegment(point, a, b, s)

(* no point removed, no mid-segment break *)
Untouched(s, point, previous) ==
    /\ \A i \in 1..Len(s.points) : ~Removed(s.points[i], point, previous, s)
    /\ \A i \in 1..(Len(s.points) - 1) :
          ~Broken(s.points[i], s.points[i + 1], point, previous, s)

(* i..j is a maximal run of kept points with no break inside *)
IsRun(s, i, j, point, previous) ==
    LET pts == s.points
        cut(k) == \/ k < 1
                  \/ k >= Len(pts)
                  \/ Removed(pts[k], point, previous, s)
                  \/ Removed(pts[k + 1], point, previous, s)
                  \/ Broken(pts[k], pts[k + 1], point, previous, s)
    IN  /\ 1 <= i /\ i <= j /\ j <= Len(pts)
        /\ \A k \in i..j : ~Removed(pts[k], point, previous, s)
        /\ \A k \in i..(j - 1) : ~cut(k)
        /\ cut(i - 1)
        /\ cut(j)

(* what one original stroke contributes, in point order: itself when
   untouched, else its runs of at least 2 points *)
RECURSIVE RunsFrom(_, _, _, _)
RunsFrom(s, i, point, previous) ==
    IF i > Len(s.points) THEN <<>>
    ELSE LET ends == { j \in (i + 1)..Len(s.points) : IsRun(s, i, j, point, previous) }
         IN  IF ends = {} THEN RunsFrom(s, i + 1, point, previous)
             ELSE LET j == CHOOSE j \in ends : TRUE
                  IN  <<[src |-> s, same |-> FALSE, points |-> SubSeq(s.points, i, j)]>>
                      \o RunsFrom(s, j + 1, point, previous)

Contribution(s, point, previous) ==
    IF Untouched(s, point, previous)
    THEN <<[src |-> s, same |-> TRUE, points |-> s.points]>>
    ELSE RunsFrom(s, 1, point, previous)

RECURSIVE Expected(_, _, _, _)
Expected(strokes, i, point, previous) ==
    IF i > Len(strokes) THEN <<>>
    ELSE Contribution(strokes[i], point, previous)
         \o Expected(strokes, i + 1, point, previous)

(* the last event was an eraseAt *)
Erased == ev.kind = "erase"

(* the stroke collection a store value holds *)
StoredStrokes(st) == IF st.present /\ st.hasStrokes THEN st.strokes ELSE <<>>

Before == StoredStrokes(ev.before)
After == StoredStrokes(store)

-----------------------------------------------------------------------------
(* Claims about eraseAt, checked under SpecErase *)

HasWidth(s) == s.width # NoWidth

(* C1: in eraseAt(point, previous), with r = max(0.015, width * 6), a point
   of a stroke is classified removed exactly when it is within r of point,
   or previous is given and it is within r of previous or of the segment
   [previous, point]; every other point is classified kept, and no removed
   point is left in the Collection. *)
C1_RemovedIffWithinRadius ==
    Erased =>
        /\ \A s \in Range(Before) :
              HasWidth(s) =>
                 \A i \in 1..Len(s.points) :
                    keepPoint(s.points[i], ev.point, ev.previous, radiusSqOf(s))
                       <=> ~Removed(s.points[i], ev.point, ev.previous, s)
        /\ \A t \in Range(After) :
              HasWidth(t) =>
                 \A i \in 1..Len(t.points) :
                    ~Removed(t.points[i], ev.point, ev.previous, t)

(* a point within r of the swept segment only, not of either end, was removed *)
C1_Witness ==
    /\ Erased
    /\ ev.previous # NoPoint
    /\ \E s \in Range(Before) :
          /\ HasWidth(s)
          /\ s \notin Range(After)
          /\ \E i \in 1..Len(s.points) :
                /\ ~WithinOfPoint(s.points[i], ev.point, s)
                /\ ~WithinOfPoint(s.points[i], ev.previous, s)
                /\ WithinOfSegment(s.points[i], ev.previous, ev.point, s)
                /\ \A k \in 1..Len(s.points) :
                      k # i => ~Removed(s.points[k], ev.point, ev.previous, s)

ThreePoints == <<<<0, 0>>, <<0, 25>>, <<0, 50>>>>
FivePoints == <<<<0, 0>>, <<0, 10>>, <<0, 25>>, <<0, 40>>, <<0, 50>>>>

HalfwayErase == Erased /\ ev.point = <<0, 25>> /\ ev.previous = NoPoint

(* the radius is smaller than 0.5 *)
SmallRadius(s) == ContractRadius(s) < 1000

(* C2 as stated: the stroke [(0,0),(0,0.5),(0,1)], radius < 0.5, erased at
   (0,0.5) with no previous point, is replaced by exactly two surviving
   strokes of at least 2 points each. *)
C2_Original ==
    (/\ HalfwayErase
     /\ Len(Before) = 1
     /\ Before[1].points = ThreePoints
     /\ SmallRadius(Before[1]))
    => /\ Len(After) = 2
       /\ \A k \in 1..Len(After) : Len(After[k].points) >= 2

(* C2 amended: that stroke leaves no surviving stroke, its two runs having
   one point each; the stroke [(0,0),(0,0.2),(0,0.5),(0,0.8),(0,1)], which has
   two points on each side of the contact, is replaced by exactly the two
   strokes [(0,0),(0,0.2)] and [(0,0.8),(0,1)]. *)
C2_SplitNeedsTwoPointsPerSide ==
    (HalfwayErase /\ Len(Before) = 1 /\ SmallRadius(Before[1])) =>
        /\ Before[1].points = ThreePoints => After = <<>>
        /\ Before[1].points = FivePoints =>
              /\ Len(After) = 2
              /\ After[1].points = <<<<0, 0>>, <<0, 10>>>>
              /\ After[2].points = <<<<0, 40>>, <<0, 50>>>>

C2_Witness ==
    /\ HalfwayErase
    /\ Len(Before) = 1
    /\ Before[1].points = ThreePoints
    /\ SmallRadius(Before[1])
    /\ After = <<>>
    /\ ev.wrote

(* orientation of c against the line a -> b: -1, 0 or 1 *)
Side(a, b, c) ==
    LET d == (b[1] - a[1]) * (c[2] - a[2]) - (b[2] - a[2]) * (c[1] - a[1])
    IN  IF d > 0 THEN 1 ELSE IF d < 0 THEN 0 - 1 ELSE 0

(* c, collinear with a and b, lies on the segment [a, b] *)
Between(a, b, c) ==
    /\ Min(a[1], b[1]) <= c[1] /\ c[1] <= Max(a[1], b[1])
    /\ Min(a[2], b[2]) <= c[2] /\ c[2] <= Max(a[2], b[2])

(* the segments [a1, a2] and [b1, b2] have a common point *)
Intersect(a1, a2, b1, b2) ==
    \/ Side(a1, a2, b1) # Side(a1, a2, b2) /\ Side(b1, b2, a1) # Side(b1, b2, a2)
    \/ Side(a1, a2, b1) = 0 /\ Between(a1, a2, b1)
    \/ Side(a1, a2, b2) = 0 /\ Between(a1, a2, b2)
    \/ Side(b1, b2, a1) = 0 /\ Between(b1, b2, a1)
    \/ Side(b1, b2, a2) = 0 /\ Between(b1, b2, a2)

(* C3: whenever the swept segment [previous, point] crosses the segment
   between two consecutive kept points of a stroke, the run is broken there:
   the stroke does not survive eraseAt intact. *)
C3_CrossingBreaksRun ==
    (Erased /\ ev.previous # NoPoint) =>
        \A s \in Range(Before) :
           (\E i \in 1..(Len(s.points) - 1) :
               /\ keepPoint(s.points[i], ev.point, ev.previous, radiusSqOf(s))
               /\ keepPoint(s.points[i + 1], ev.point, ev.previous, radiusSqOf(s))
               /\ Intersect(s.points[i], s.points[i + 1], ev.previous, ev.point))
           => s \notin Range(After)

(* C4: every stroke eraseAt newly puts into the Collection has at least 2
   points, and a 2-point stroke with a point within the radius of the contact
   yields no surviving stroke. *)
C4_MinimumLength ==
    Erased =>
        /\ \A t \in Range(After) : t \notin Range(Before) => Len(t.points) >= 2
        /\ \A s \in Range(Before) :
              \A k \in 1..Len(splitStroke(s, ev.point, ev.previous).newSegments) :
                 Len(splitStroke(s, ev.point, ev.previous).newSegments[k]) >= 2
        /\ \A s \in Range(Before) :
              (/\ Len(s.points) = 2
               /\ \E i \in 1..2 : WithinOfPoint(s.points[i], ev.point, s))
              => /\ s \notin Range(After)
                 /\ Len(Before) = 1 => After = <<>>

C4_Witness ==
    /\ Erased
    /\ Len(Before) = 1
    /\ Len(Before[1].points) = 2
    /\ WithinOfPoint(Before[1].points[1], ev.point, Before[1])
    /\ ~WithinOfPoint(Before[1].points[2], ev.point, Before[1])
    /\ After = <<>>

(* the smallest squared gap between two points of s exceeds the squared radius *)
GapsExceedRadius(s) ==
    \A i, j \in 1..Len(s.points) :
       i < j => Dist2(s.points[i], s.points[j]) * 1600 > ContractRadius(s) ^ 2

(* C5 as stated, for an erase with no previous point: a stroke none of whose
   points equals the contact point, with a radius smaller than the smallest
   gap between its points, is returned unmodified, and when every stroke is
   such the Collection is not rewritten. *)
C5_Original ==
    (Erased /\ ev.previous = NoPoint) =>
        LET clear(s) == /\ \A i \in 1..Len(s.points) : s.points[i] # ev.point
                        /\ GapsExceedRadius(s)
        IN  /\ \A s \in Range(Before) : clear(s) => s \in Range(After)
            /\ (\A s \in Range(Before) : clear(s)) => ~ev.wrote /\ store = ev.before

(* C5 amended: a stroke all of whose points are farther than its radius from
   the contact point, from previous and from the segment [previous, point]
   (previous given), and none of whose segments is broken by the sweep, is
   returned unmodified; when every stroke is such, the Collection is not
   rewritten. *)
C5_FartherThanRadiusUnmodified ==
    Erased =>
        /\ \A k \in 1..Len(Before) :
              Untouched(Before[k], ev.point, ev.previous) =>
                 /\ Before[k] \in Range(After)
                 /\ eraseOne([nextStrokes |-> <<>>, modified |-> FALSE],
                             Before[k], ev.point, ev.previous)
                       = [nextStrokes |-> <<Before[k]>>, modified |-> FALSE]
        /\ (\A s \in Range(Before) : Untouched(s, ev.point, ev.previous))
              => ~ev.wrote /\ store = ev.before

(* a contact beside a stroke, within twice its radius of one of its points,
   left it in place while another stroke was rewritten *)
C5_Witness ==
    /\ Erased
    /\ ev.previous = NoPoint
    /\ ev.wrote
    /\ \E s \in Range(Before) :
          /\ Untouched(s, ev.point, ev.previous)
          /\ \E i \in 1..Len(s.points) :
                /\ s.points[i] # ev.point
                /\ Dist2(s.points[i], ev.point) * 1600 <= 4 * ContractRadius(s) ^ 2
          /\ s \in Range(After)

(* C6: after eraseAt modifies the Collection, the new Collection is the
   concatenation, in the original stroke order, of each stroke's result: an
   untouched stroke itself, a touched stroke its surviving runs in point
   order, nothing for a stroke with no surviving run. *)
C6_ConcatenationInOrder ==
    (Erased /\ ev.wrote) =>
        LET exp == Expected(Before, 1, ev.point, ev.previous)
        IN  /\ Len(After) = Len(exp)
            /\ \A k \in 1..Len(exp) :
                  /\ After[k].points = exp[k].points
                  /\ exp[k].same => After[k] = exp[k].src

(* an untouched stroke stays ahead of the two runs of the stroke behind it,
   or a stroke is dropped between survivors *)
C6_Witness ==
    /\ Erased
    /\ ev.wrote
    /\ Len(Before) = 2
    /\ Len(After) = 3
    /\ After[1] = Before[1]
    /\ After[2].points # After[3].points

(* C7: an eraseAt that modifies no stroke performs no write and forces no
   re-render; the Collection stays as it was. *)
C7_NoWriteWhenUntouched ==
    (Erased /\ \A s \in Range(Before) : Untouched(s, ev.point, ev.previous)) =>
        /\ ~ev.wrote
        /\ ~ev.redrew
        /\ store = ev.before

C7_Witness ==
    /\ Erased
    /\ Len(Before) > 0
    /\ \A s \in Range(Before) : Len(s.points) > 0 /\ Untouched(s, ev.point, ev.previous)
    /\ ~ev.wrote
    /\ store = ev.before

IsMinOf(m, pts) ==
    /\ \E i \in 1..Len(pts) : pts[i][2] = m
    /\ \A i \in 1..Len(pts) : m <= pts[i][2]

IsMaxOf(m, pts) ==
    /\ \E i \in 1..Len(pts) : pts[i][2] = m
    /\ \A i \in 1..Len(pts) : m >= pts[i][2]

(* C8: each surviving run carries the original stroke's tool, width, color
   and alpha; with a basis on the original, the same basis width, height,
   anchorLine and anchorLineTop, and minY / maxY the least / greatest y of
   the run's own points; no basis when the original had none. *)
C8_RunKeepsAttributes ==
    (Erased /\ ev.wrote) =>
        LET exp == Expected(Before, 1, ev.point, ev.previous)
        IN  Len(After) = Len(exp) =>
               \A k \in 1..Len(exp) :
                  LET t == After[k]
                      s == exp[k].src
                  IN  ~exp[k].same =>
                         /\ t.tool = s.tool
                         /\ t.width = s.width
                         /\ t.color = s.color
                         /\ t.alpha = s.alpha
                         /\ t.basis.has = s.basis.has
                         /\ s.basis.has =>
                               /\ t.basis.width = s.basis.width
                               /\ t.basis.height = s.basis.height
                               /\ t.basis.hasAnchor = s.basis.hasAnchor
                               /\ t.basis.anchorLine = s.basis.anchorLine
                               /\ t.basis.anchorLineTop = s.basis.anchorLineTop
                               /\ IsMinOf(t.basis.minY, t.points)
                               /\ IsMaxOf(t.basis.maxY, t.points)

(* a run of an anchored stroke whose own extent is smaller than the original's *)
C8_Witness ==
    /\ Erased
    /\ ev.wrote
    /\ \E k \in 1..Len(After) :
          /\ After[k] \notin Range(Before)
          /\ After[k].basis.has
          /\ After[k].basis.hasAnchor
          /\ \E s \in Range(Before) :
                /\ s.basis.hasAnchor
                /\ s.basis.anchorLine = After[k].basis.anchorLine
                /\ After[k].basis.maxY < s.basis.maxY

-----------------------------------------------------------------------------
(* Two actors on one store *)

(* the step is the other actor's write *)
RemoteWrites == remote.pending /\ ~remote'.pending

(* C9: last-writer-wins.  When the overlay has written the Collection
   between the other actor's read and that actor's write, the store holds,
   after the later write, exactly the later writer's value (what it had read
   with its own stroke appended, and its own key): every stroke that was
   stored in between and that the later writer had not read is absent. *)
C9_LastWriterWins ==
    [][RemoteWrites =>
          /\ store' = [present |-> TRUE, hasStrokes |-> TRUE,
                       strokes |-> Append(StoredStrokes(remote.snap), RemoteStroke),
                       extra |-> 1]
          /\ \A t \in Range(StoredStrokes(store)) :
                (t \notin Range(StoredStrokes(remote.snap)) /\ t # RemoteStroke)
                    => t \notin Range(StoredStrokes(store'))]_vars

(* the other actor read an empty Collection, the store held a stroke of the
   overlay by the time it wrote, and only the other actor's stroke is left *)
C9_Witness ==
    /\ ev.kind = "remoteWrite"
    /\ ev.stale
    /\ StoredStrokes(ev.before) = <<>>
    /\ After = <<RemoteStroke>>

(* C10: the Collection is never cached across events.  A stroke commit
   writes the Collection as the store holds it when the pointer goes up,
   with the new stroke appended; an erase step writes what erasing leaves of
   the Collection as the store holds it at that step; a clear empties it;
   and each keeps the other keys the store holds at that event.  So what the
   other actor wrote before the event is in the value written back. *)
C10_ReadAtEachEvent ==
    [][(ev' # ev \/ store' # store) =>
          LET pre == StoredStrokes(store)
              post == StoredStrokes(store')
          IN  /\ (ev'.kind \in {"up", "cancel"} /\ ev'.wrote) =>
                    /\ Len(post) = Len(pre) + 1
                    /\ SubSeq(post, 1, Len(pre)) = pre
                    /\ post[Len(post)].points = current.points
                    /\ store'.extra = store.extra
              /\ ev'.kind = "erase" =>
                    LET exp == Expected(pre, 1, ev'.point, ev'.previous)
                    IN  /\ Len(post) = Len(exp)
                        /\ \A k \in 1..Len(exp) :
                              /\ post[k].points = exp[k].points
                              /\ exp[k].same => post[k] = exp[k].src
                        /\ store'.extra = store.extra
              /\ ev'.kind = "clear" =>
                    /\ post = <<>>
                    /\ store'.extra = store.extra]_vars

(* the other actor wrote its stroke after the pointer went down, and the
   stroke is in the Collection, ahead of the new one, after the commit *)
C10_Witness ==
    /\ ev.kind \in {"up", "cancel"}
    /\ ev.wrote
    /\ remote.sinceDown
    /\ Len(After) = 2
    /\ After[1] = RemoteStroke
    /\ After[2] # RemoteStroke
    /\ store.extra = 1

-----------------------------------------------------------------------------
(* The metadata accessors *)

(* C11 as stated: readMeta returns { strokes: [] } whenever what is stored
   is absent or is not a well-shaped collection object. *)
C11_Original ==
    (ev.kind = "read" /\ ~(ev.before.present /\ ev.before.hasStrokes)) =>
        ev.value = EmptyMeta

(* C11: readMeta returns { strokes: [] } when nothing, or no object, is
   stored under the key; a stored object is returned as a copy whatever its
   shape, and an object without an array under "strokes" comes back as it
   is, to be taken by its readers for a collection without strokes. *)
C11_ReadEmptyWhenNoObject ==
    ev.kind = "read" =>
        /\ ~ev.before.present => ev.value = EmptyMeta
        /\ ev.before.present =>
              /\ ev.value.present
              /\ ev.value.hasStrokes = ev.before.hasStrokes
              /\ ev.value.strokes = ev.before.strokes
              /\ ~ev.before.hasStrokes => Len(StoredStrokes(ev.value)) = 0
        /\ store = ev.before

(* an object with another key and no array under "strokes" was read, and
   came back with that key *)
C11_Witness ==
    /\ ev.kind = "read"
    /\ ev.before.present
    /\ ~ev.before.hasStrokes
    /\ ev.value.extra = JsonExtra
    /\ ev.value # EmptyMeta

(* the caller has just assigned to the object it read or wrote *)
Mutated == ev.kind \in {"mutateRead", "mutateWritten"}

C13_Original == ev.kind = "roundTrip" => store = ev.before

(* C13: writeMeta(readMeta()) leaves the stored strokes as they were for
   every state of the store; it leaves the stored value content-equal when
   the store holds an object of JSON values; when nothing, or no object, is
   stored it stores { strokes: [] }. *)
C13_RoundTrip ==
    ev.kind = "roundTrip" =>
        /\ StoredStrokes(store) = StoredStrokes(ev.before)
        /\ (ev.before.present /\ ev.before.extra \in {NoExtra, JsonExtra}) =>
              store = ev.before
        /\ ~ev.before.present => store = EmptyMeta

(* a collection of one stroke with another key went through the round trip *)
C13_Witness ==
    /\ ev.kind = "roundTrip"
    /\ ev.before.present
    /\ ev.before.extra = JsonExtra
    /\ Len(StoredStrokes(ev.before)) = 1
    /\ store = ev.before

-----------------------------------------------------------------------------
(* Gestures *)

(* alpha in tenths: 1 for the pen, 0.3 for the highlighter *)
ContractAlpha(t) == IF t = "highlighter" THEN 3 ELSE 10

(* C14: a draw gesture appends exactly one stroke as the last element of
   the Collection.  The pointer-down begins a stroke of one point with the
   tool then selected and alpha 1 for the pen, 0.3 for the highlighter;
   each pointer-move adds its point behind the others; the pointer-up
   stores the Collection as it was, unchanged and in the same order, with
   that stroke, its points, tool and alpha, behind it. *)
C14_DrawGestureAppends ==
    [][/\ (current' # current /\ current' # NoStroke /\ Len(current'.points) = 1) =>
             /\ current'.points[1] \in PointerPoints
             /\ current'.tool = tool
             /\ current'.alpha = ContractAlpha(tool)
       /\ (current' # current /\ current' # NoStroke /\ Len(current'.points) > 1) =>
             /\ current # NoStroke
             /\ Len(current'.points) = Len(current.points) + 1
             /\ SubSeq(current'.points, 1, Len(current.points)) = current.points
             /\ current'.points[Len(current'.points)] \in PointerPoints
             /\ current'.tool = current.tool
             /\ current'.alpha = current.alpha
       /\ store' # store =>
             LET pre == StoredStrokes(store)
                 post == StoredStrokes(store')
             IN  /\ ev'.kind = "up"
                 /\ current # NoStroke
                 /\ Len(post) = Len(pre) + 1
                 /\ SubSeq(post, 1, Len(pre)) = pre
                 /\ post[Len(post)].points = current.points
                 /\ post[Len(post)].tool = current.tool
                 /\ post[Len(post)].alpha = ContractAlpha(current.tool)]_vars

(* a highlighter stroke of two different points, in the order they came,
   stored behind a stroke that was there before *)
C14_Witness ==
    /\ ev.kind = "up"
    /\ ev.wrote
    /\ Len(Before) = 1
    /\ Len(After) = 2
    /\ After[1] = Before[1]
    /\ After[2].tool = "highlighter"
    /\ After[2].alpha = 3
    /\ After[2].points = <<<<0, 25>>, <<40, 40>>>>

(* C15: in every reachable state pointer-cancel leaves the overlay state
   and the stored Collection that pointer-up would leave: in a draw gesture
   the in-progress stroke is committed as it is, behind the strokes stored
   before; in an erase session the session ends and the store is left as
   the erase steps made it. *)
C15_CancelAsUp ==
    /\ pointercancel = pointerup
    /\ (~erasingActive /\ down /\ current # NoStroke) =>
          LET pre == StoredStrokes(store)
              post == StoredStrokes(pointercancel.store)
          IN  /\ Len(post) = Len(pre) + 1
              /\ SubSeq(post, 1, Len(pre)) = pre
              /\ post[Len(post)].points = current.points
              /\ pointercancel.current = NoStroke
              /\ ~pointercancel.down
    /\ erasingActive =>
          /\ pointercancel.store = store
          /\ ~pointercancel.erasingActive
          /\ pointercancel.lastErasePoint = NoPoint
          /\ pointercancel.current = current
          /\ pointercancel.down = down

(* a stroke of two points was committed by a pointer-cancel, behind a stroke
   stored before *)
C15_Witness ==
    /\ ev.kind = "cancel"
    /\ ev.wrote
    /\ Len(Before) = 1
    /\ Len(After) = 2
    /\ After[1] = Before[1]
    /\ Len(After[2].points) = 2

-----------------------------------------------------------------------------
(* Change notifications *)

NamesFixedKey(change) ==
    change.isObject /\ \/ change.hasKey /\ change.key = META_KEY
                       \/ change.hasName /\ change.name = META_KEY

(* neither a key nor a name to go by *)
Unrecognized(change) ==
    ~change.isObject \/ (~change.hasKey /\ ~change.hasName)

(* C16: a change notification triggers a re-render when it names the fixed
   key or has an unrecognized shape, and does not when it names a different
   key; handling a notification never writes the store. *)
C16_NotificationRerenders ==
    ev.kind = "notify" =>
        /\ ev.redrew <=> (NamesFixedKey(ev.change) \/ Unrecognized(ev.change))
        /\ store = ev.before

(* the step is an erase step: a pointer-down or a pointer-move handled by
   eraseWithPointer *)
EraseStep == ev' # ev /\ ev'.kind = "erase"

(* C17: in every erase step the previous point passed to eraseAt is the
   contact point of the event the erase session processed last, the step
   that opens a session (none was open) is processed with no previous
   point, and no contact point outlives its session. *)
C17_PreviousIsLastContact ==
    [][/\ EraseStep =>
             /\ ev'.previous = lastErasePoint
             /\ lastErasePoint' = ev'.point
             /\ erasingActive'
             /\ ~erasingActive => ev'.previous = NoPoint
             /\ erasingActive => (ev.kind = "erase" /\ ev'.previous = ev.point)
       /\ ~erasingActive' => lastErasePoint' = NoPoint]_vars

(* a move of the eraser swept from the contact before to another point and
   erased something on the way *)
C17_Witness ==
    /\ ev.kind = "erase"
    /\ erasingActive
    /\ ev.previous # NoPoint
    /\ ev.previous # ev.point
    /\ lastErasePoint = ev.point
    /\ ev.wrote

(* C18: a clear leaves the stored Collection empty whatever it held, and a
   step that is neither a clear nor an erase step leaves every stroke that
   was stored where it was and as it was. *)
C18_ClearEmptiesOnlyEraseAlters ==
    [][/\ (ev' # ev /\ ev'.kind = "clear") =>
             /\ store'.present
             /\ store'.hasStrokes
             /\ store'.strokes = <<>>
       /\ (store' # store /\ ev'.kind \notin {"clear", "erase"}) =>
             LET pre == StoredStrokes(store)
                 post == StoredStrokes(store')
             IN  /\ Len(post) >= Len(pre)
                 /\ SubSeq(post, 1, Len(pre)) = pre]_vars

(* two strokes were stored, and the clear left none *)
C18_Witness ==
    /\ ev.kind = "clear"
    /\ Len(Before) = 2
    /\ store.present
    /\ store.hasStrokes
    /\ store.strokes = <<>>

(* What a render event drew, beside the strokes it drew them from *)
Rendered == ev.kind = "render"
RenderedFrom == strokesOf(readMeta(ev.before))

(* the anchor line's current top, where the content accessor reports one *)
Reported == editor # "none" /\ ev.layout.has
CurrentTop(s) == ev.layout.pad + s.basis.anchorLine * ev.layout.lineHeight

(* the basis value, replaced by the live value when it is 0 or missing *)
OrLive(basisValue, liveValue) == IF basisValue # 0 THEN basisValue ELSE liveValue

(* the live value as the renderer measures it: 1 for a rectangle of size 0 *)
Measured(liveValue) == IF liveValue = 0 THEN 1 ELSE liveValue

(* deltaY as the claim words it, for a live height and a basis height *)
ContractDeltaY(s, liveH, basisH) ==
    IF liveH >= basisH /\ s.basis.has /\ s.basis.hasAnchor /\ Reported
    THEN QSub(QInt(CurrentTop(s)), QMul(QReduce(s.basis.anchorLineTop), QInt(basisH)))
    ELSE QInt(0)

(* C19 as stated: the live height is the height of the live rectangle, also
   when that is 0. *)
C19_Original ==
    Rendered =>
        \A i \in 1..Len(ev.drawn) :
            LET s == RenderedFrom[i]
                liveH == ev.size.height
            IN  ev.drawn[i].deltaY =
                    ContractDeltaY(s, liveH, OrLive(s.basis.height, liveH))

(* C19: deltaY is the anchor line's current top minus anchorLineTop times the
   basis height when the live height is at least the basis height, the
   stroke has its anchor and the content accessor reports the line's top,
   and 0 in every other case, where a live height of 0 counts as 1; every
   rendered y is the scaled y plus deltaY, and in the example of the claim
   deltaY is 20. *)
C19_AnchorCorrection ==
    Rendered =>
        \A i \in 1..Len(ev.drawn) :
            LET s == RenderedFrom[i]
                liveH == Measured(ev.size.height)
                basisH == OrLive(s.basis.height, liveH)
                drawn == ev.drawn[i]
            IN  /\ drawn.deltaY = ContractDeltaY(s, liveH, basisH)
                /\ \A k \in 1..Len(s.points) :
                       QSub(drawn.path[k][2], drawn.deltaY) =
                           QMul(QCoord(s.points[k][2]), QInt(basisH))
                /\ ( /\ s.basis.hasAnchor
                     /\ s.basis.anchorLine = 3
                     /\ s.basis.anchorLineTop = <<1, 5>>
                     /\ basisH = 100
                     /\ Reported
                     /\ CurrentTop(s) = 40
                     /\ liveH = 120 )
                   => drawn.deltaY = QInt(20)

(* the example of the claim was rendered: the point stored at y = 0.5 is
   drawn at 50 + 20 *)
C19_Witness ==
    /\ Rendered
    /\ Reported
    /\ ev.size.height = 120
    /\ Len(ev.drawn) >= 1
    /\ RenderedFrom[1].basis.hasAnchor
    /\ RenderedFrom[1].basis.height = 100
    /\ CurrentTop(RenderedFrom[1]) = 40
    /\ ev.drawn[1].deltaY = QInt(20)
    /\ RenderedFrom[1].points[1][2] = 25
    /\ ev.drawn[1].path[1][2] = QInt(70)

(* the pixels and the line width for a basis width and a basis height *)
ContractPixels(s, drawn, basisW, basisH) ==
    /\ drawn.lineWidth = QMul(QWidth(s.width), QInt(basisW))
    /\ Len(drawn.path) = Len(s.points)
    /\ \A k \in 1..Len(s.points) :
           drawn.path[k] =
               <<QMul(QCoord(s.points[k][1]), QInt(basisW)),
                 QAdd(QMul(QCoord(s.points[k][2]), QInt(basisH)), drawn.deltaY)>>

(* C20 as stated: a basis value of 0 or missing is replaced by the live
   value, also when that is 0. *)
C20_Original ==
    Rendered =>
        /\ Len(ev.drawn) = Len(RenderedFrom)
        /\ \A i \in 1..Len(ev.drawn) :
               LET s == RenderedFrom[i]
               IN  ContractPixels(s, ev.drawn[i],
                                  OrLive(s.basis.width, ev.size.width),
                                  OrLive(s.basis.height, ev.size.height))

(* C20: each stored point (nx, ny) is drawn at (nx * basisWidth,
   ny * basisHeight + deltaY) with line width stroke.width * basisWidth,
   where a basis value of 0 or missing is replaced by the live value, and a
   live value of 0 by 1. *)
C20_RenderScaling ==
    Rendered =>
        /\ Len(ev.drawn) = Len(RenderedFrom)
        /\ \A i \in 1..Len(ev.drawn) :
               LET s == RenderedFrom[i]
               IN  ContractPixels(s, ev.drawn[i],
                                  OrLive(s.basis.width, Measured(ev.size.width)),
                                  OrLive(s.basis.height, Measured(ev.size.height)))

(* a stroke recorded against a width of 400 was drawn into a rectangle 200
   wide: its width 0.003 is 1.2 pixels and its point at x = 0.8 is at 320 *)
C20_Witness ==
    /\ Rendered
    /\ ev.size.width = 200
    /\ Len(ev.drawn) >= 1
    /\ RenderedFrom[1].basis.width = 400
    /\ RenderedFrom[1].width = 6
    /\ ev.drawn[1].lineWidth = <<6, 5>>
    /\ RenderedFrom[1].points[2][1] = 40
    /\ ev.drawn[1].path[2][1] = QInt(320)

(* C21: a committed stroke of this engine, rendered where no anchor
   correction applies, is drawn at its normalized coordinates times the
   width and the height of the live rectangle. *)
C21_ScalesWithLiveRectangle ==
    Rendered =>
        \A i \in 1..Len(RenderedFrom) :
            LET s == RenderedFrom[i]
            IN  ( /\ ev.size.width > 0
                  /\ ev.size.height > 0
                  /\ s.basis.has
                  /\ (~s.basis.hasAnchor \/ ~Reported) ) =>
                    \A k \in 1..Len(s.points) :
                        ev.drawn[i].path[k] =
                            <<QMul(QCoord(s.points[k][1]), QInt(ev.size.width)),
                              QMul(QCoord(s.points[k][2]), QInt(ev.size.height))>>

(* a step that commits the stroke in progress *)
CommitStep == ev' # ev /\ ev'.kind \in {"up", "cancel"} /\ ev'.wrote

(* the surface has no content-geometry capability when a stroke is committed *)
NoCapability == editor \in {"none", "silent"}

(* C26: without a content-geometry capability a commit appends the stroke in
   progress with no anchor, and a render where the accessor reports nothing
   draws every stroke, and any stroke without an anchor, with deltaY = 0. *)
C26_NoCapabilityNoAnchor ==
    [][/\ (CommitStep /\ NoCapability) =>
             LET post == StoredStrokes(store')
             IN  /\ Len(post) = Len(StoredStrokes(store)) + 1
                 /\ SubSeq(post, 1, Len(post) - 1) = StoredStrokes(store)
                 /\ post[Len(post)] = current
                 /\ ~post[Len(post)].basis.hasAnchor
       /\ (ev' # ev /\ ev'.kind = "render") =>
             \A i \in 1..Len(ev'.drawn) :
                 LET all == IF current # NoStroke
                            THEN Append(StoredStrokes(store), current)
                            ELSE StoredStrokes(store)
                 IN  (~all[i].basis.hasAnchor \/ editor = "none" \/ ~ev'.layout.has) =>
                         ev'.drawn[i].deltaY = QInt(0)]_vars

(* a stroke committed beside an editor that answers nothing was rendered *)
C26_Witness ==
    /\ Rendered
    /\ editor = "silent"
    /\ Len(RenderedFrom) >= 1
    /\ RenderedFrom[1].basis.has
    /\ ~RenderedFrom[1].basis.hasAnchor
    /\ Len(RenderedFrom[1].points) = 2
    /\ ev.drawn[1].deltaY = QInt(0)

(* The runs of C23, by the scan it describes: run is the current run, out
   the runs emitted so far *)
Emit(out, run) == IF Len(run) >= 2 THEN Append(out, run) ELSE out

RECURSIVE ClaimRuns(_, _, _, _, _, _)
ClaimRuns(s, i, run, out, point, previous) ==
    IF i > Len(s.points) THEN Emit(out, run)
    ELSE LET p == s.points[i]
         IN  IF Removed(p, point, previous, s)
             THEN ClaimRuns(s, i + 1, <<>>, Emit(out, run), point, previous)
             ELSE IF run = <<>>
             THEN ClaimRuns(s, i + 1, <<p>>, out, point, previous)
             ELSE IF Broken(run[Len(run)], p, point, previous, s)
             THEN ClaimRuns(s, i + 1, <<p>>, Emit(out, run), point, previous)
             ELSE ClaimRuns(s, i + 1, Append(run, p), out, point, previous)

(* the point lists a stroke leaves in the Collection: its own when it is
   untouched, else its runs *)
ClaimLeaves(s, point, previous) ==
    IF Untouched(s, point, previous) THEN <<s.points>>
    ELSE ClaimRuns(s, 1, <<>>, <<>>, point, previous)

RECURSIVE ClaimCollection(_, _, _, _)
ClaimCollection(strokes, i, point, previous) ==
    IF i > Len(strokes) THEN <<>>
    ELSE ClaimLeaves(strokes[i], point, previous)
         \o ClaimCollection(strokes, i + 1, point, previous)

(* C23: for each stroke eraseAt computes exactly the runs of the scan: a
   removed point ends the current run, a kept point starts a new run when
   the current run is empty or when one of the four ends of the segment from
   the previous kept point and of the swept segment is within the radius of
   the other segment, and otherwise extends the run; runs of fewer than 2
   points are not emitted; and these runs are what a modified stroke leaves
   in the Collection. *)
C23_RunsOfTheScan ==
    Erased =>
        /\ \A s \in Range(Before) :
              splitStroke(s, ev.point, ev.previous).newSegments =
                  ClaimRuns(s, 1, <<>>, <<>>, ev.point, ev.previous)
        /\ ev.wrote =>
              [k \in 1..Len(After) |-> After[k].points] =
                  ClaimCollection(Before, 1, ev.point, ev.previous)

(* one sweep broke a stroke between its two kept points, leaving no run of
   it, and removed a point of another stroke, leaving the two runs beside it *)
C23_Witness ==
    /\ Erased
    /\ ev.wrote
    /\ ev.previous # NoPoint
    /\ \E s \in Range(Before) :
          /\ \A i \in 1..Len(s.points) : ~Removed(s.points[i], ev.point, ev.previous, s)
          /\ \E i \in 1..(Len(s.points) - 1) :
                Broken(s.points[i], s.points[i + 1], ev.point, ev.previous, s)
          /\ ClaimRuns(s, 1, <<>>, <<>>, ev.point, ev.previous) = <<>>
    /\ \E t \in Range(Before) :
          /\ \E i \in 1..Len(t.points) : Removed(t.points[i], ev.point, ev.previous, t)
          /\ Len(ClaimRuns(t, 1, <<>>, <<>>, ev.point, ev.previous)) = 2
    /\ Len(After) = 2

(* the strokes After[k..] are contiguous pieces of the strokes Before[b..],
   in order, the pieces of Before[b] beginning at index from or later *)
RECURSIVE Pieces(_, _, _)
Pieces(k, b, from) ==
    IF k > Len(After) THEN TRUE
    ELSE IF b > Len(Before) THEN FALSE
    ELSE LET run == After[k].points
             pts == Before[b].points
         IN  \/ \E i \in from..(Len(pts) - Len(run) + 1) :
                   /\ SubSeq(pts, i, i + Len(run) - 1) = run
                   /\ Pieces(k + 1, b, i + Len(run))
             \/ Pieces(k, b + 1, 1)

RECURSIVE PointCount(_, _)
PointCount(strokes, i) ==
    IF i > Len(strokes) THEN 0
    ELSE Len(strokes[i].points) + PointCount(strokes, i + 1)

(* C27: after eraseAt every stroke of the Collection has for its points a
   contiguous piece of the points of one stroke of the old Collection, the
   pieces of one stroke disjoint and in index order, the strokes in the
   order of the strokes they come from; the number of points does not grow. *)
C27_EraseOnlyRemoves ==
    Erased =>
        /\ Pieces(1, 1, 1)
        /\ PointCount(After, 1) <= PointCount(Before, 1)

(* a stroke of five points left two runs of two *)
C27_Witness ==
    /\ Erased
    /\ ev.wrote
    /\ Len(Before) = 1
    /\ Len(Before[1].points) = 5
    /\ Len(After) = 2
    /\ After[1].points = SubSeq(Before[1].points, 1, 2)
    /\ After[2].points = SubSeq(Before[1].points, 4, 5)

(* C28: an eraseAt with the arguments of the eraseAt just before it modifies
   no stroke and writes nothing: the Collection stays as the first left it. *)
C28_EraseIdempotent ==
    [][(/\ ev.kind = "erase"
        /\ ev'.kind = "erase"
        /\ ev'.point = ev.point
        /\ ev'.previous = ev.previous) =>
            /\ ~ev'.wrote
            /\ store' = store
            /\ ~eraseResult(readMeta(store), ev.point, ev.previous).modified]_vars

(* the eraseAt that rewrote the Collection was repeated *)
C28_Witness ==
    /\ Erased
    /\ ~ev.wrote
    /\ Len(After) >= 1
    /\ \E s \in EraseStrokes :
          /\ s \notin Range(After)
          /\ ~Untouched(s, ev.point, ev.previous)
          /\ After = [k \in 1..Len(ClaimLeaves(s, ev.point, ev.previous)) |->
                         runStroke(s, ClaimLeaves(s, ev.point, ev.previous)[k])]

(* C22: every point of every stored stroke lies in [0,1] x [0,1], whatever
   pointer events the draw gestures were made of. *)
C22_PointsInUnitSquare ==
    \A s \in Range(StoredStrokes(store)) :
        \A i \in 1..Len(s.points) :
            /\ 0 <= s.points[i][1] /\ s.points[i][1] <= 50
            /\ 0 <= s.points[i][2] /\ s.points[i][2] <= 50

(* C29: a draw gesture and an erase session are never active together, and
   no draw gesture is in progress while eraser mode is on. *)
C29_DrawAndEraseExclusive ==
    /\ ~(down /\ erasingActive)
    /\ erasing => ~down

(* an erase session is open on a collection that was drawn before, with no
   gesture in progress *)
C29_Witness ==
    /\ erasing
    /\ erasingActive
    /\ ~down
    /\ current = NoStroke
    /\ ev.kind = "erase"
    /\ Len(Before) >= 1

(* C30: an erase session is open only while eraser mode is on, and while
   eraser mode is off no step is an erase step and no pointer step takes a
   stroke out of the Collection. *)
C30_EraseOnlyInEraserMode ==
    [][/\ erasingActive => erasing
       /\ erasingActive' => erasing'
       /\ ~erasing =>
             /\ ~(ev' # ev /\ ev'.kind = "erase")
             /\ (ev' # ev /\ ev'.kind \in {"up", "cancel"}) =>
                    /\ Len(StoredStrokes(store')) >= Len(StoredStrokes(store))
                    /\ SubSeq(StoredStrokes(store'), 1, Len(StoredStrokes(store)))
                           = StoredStrokes(store)]_vars

(* an erase session that had removed a stroke was ended by choosing the
   highlighter, and a highlighter gesture has begun on the same spot *)
C30_Witness ==
    /\ ~erasing
    /\ ~erasingActive
    /\ tool = "highlighter"
    /\ ev.kind = "erase"
    /\ ev.wrote
    /\ down
    /\ current.points = <<ev.point>>

(* C24: from the pointer-down that begins a draw gesture to the pointer-up
   or pointer-cancel that ends it, every step keeps the stroke in progress
   with the points received so far, and the step that ends it appends a
   stroke with all of them to the Collection. *)
C24_StrokeNeverDiscarded ==
    [][(down /\ current # NoStroke) =>
          IF ev' # ev /\ ev'.kind \in {"up", "cancel"}
          THEN /\ Len(StoredStrokes(store')) = Len(StoredStrokes(store)) + 1
               /\ StoredStrokes(store')[Len(StoredStrokes(store'))].points = current.points
          ELSE /\ down'
               /\ current' # NoStroke
               /\ Len(current'.points) >= Len(current.points)
               /\ SubSeq(current'.points, 1, Len(current.points)) = current.points]_vars

(* minY and maxY of t are the least and the greatest y of its points *)
SpansOwnPoints(t) ==
    /\ t.basis.minY <= t.basis.maxY
    /\ IsMinOf(t.basis.minY, t.points)
    /\ IsMaxOf(t.basis.maxY, t.points)

(* the strokes with a basis that a step has put into the Collection *)
Written == { t \in Range(StoredStrokes(store')) :
               t.basis.has /\ t \notin Range(StoredStrokes(store)) }

(* C25 as stated: every stroke with a basis that a commit or an erase writes
   spans its own points and has a basis of positive width and height. *)
C25_Original ==
    [][\A t \in Written :
          /\ SpansOwnPoints(t)
          /\ t.basis.width > 0
          /\ t.basis.height > 0]_vars

(* C25: every stroke with a basis that a commit or an erase writes spans its
   own points; a committed stroke has a basis of positive width and height,
   and a surviving run has the width and height of the basis of the stroke
   it was cut from. *)
C25_BasisOfWrittenStrokes ==
    [][\A t \in Written :
          /\ SpansOwnPoints(t)
          /\ IF ev'.kind \in {"up", "cancel"}
             THEN t.basis.width > 0 /\ t.basis.height > 0
             ELSE \E s \in Range(StoredStrokes(store)) :
                     /\ s.basis.has
                     /\ t.basis.width = s.basis.width
                     /\ t.basis.height = s.basis.height
                     /\ \E i \in 1..(Len(s.points) - Len(t.points) + 1) :
                           t.points = SubSeq(s.points, i, i + Len(t.points) - 1)]_vars

(* the run an erase left of a committed stroke, its minY moved from 40 to
   45, lies under a stroke drawn after it *)
C25_Witness ==
    /\ ev.kind = "up"
    /\ ev.wrote
    /\ Len(After) = 2
    /\ After[1].points = SubSeq(InkPoints, 2, 3)
    /\ After[1].basis.width = 400
    /\ After[1].basis.minY = 45
    /\ After[1].basis.maxY = 50
    /\ After[2].points = <<<<0, 25>>, <<40, 40>>>>
    /\ After[2].basis.minY = 25
    /\ After[2].basis.maxY = 40

(* C31: down holds exactly when there is a stroke in progress, and a
   pointer-up or pointer-cancel that finds neither a draw gesture nor an
   erase session writes nothing and leaves the store as it was. *)
C31_DownIffCurrent ==
    [][/\ down <=> current # NoStroke
       /\ down' <=> current' # NoStroke
       /\ (/\ ~down
           /\ ~erasingActive
           /\ ev' # ev
           /\ ev'.kind \in {"up", "cancel"}) =>
              /\ ~ev'.wrote
              /\ store' = store]_vars

(* a pointer-cancel wrote nothing on a collection that holds a stroke, and
   no gesture is in progress: down is off and there is no stroke in progress *)
C31_Witness ==
    /\ ev.kind = "cancel"
    /\ ~ev.wrote
    /\ ~erasing
    /\ ~erasingActive
    /\ Len(Before) >= 1
    /\ After = Before
    /\ ~down
    /\ current = NoStroke

(* a step that writes the Collection: a commit, a modifying eraseAt, a clear *)
WritingStep ==
    /\ ev' # ev
    /\ \/ ev'.kind \in {"up", "cancel", "erase"} /\ ev'.wrote
       \/ ev'.kind = "clear"

====
